---------------------------- MODULE Spec2Model ----------------------------
(***************************************************************************)
(* Model of src/src/main.rs: a 2D bonded discrete element (BDEM) fracture  *)
(* simulation.  main() builds a particle array, forms bonds between the    *)
(* particles present at that point, pushes more particles, and then runs   *)
(* batches of sub-steps (drift, per-particle force evaluation, velocity    *)
(* update) between renders.                                                *)
(*                                                                         *)
(* Numbers.  The program computes in f64.  Here every f64 is a fixed-point *)
(* integer, value * SCALE, and every product and quotient is rounded       *)
(* toward zero, which keeps the sign symmetry of IEEE arithmetic           *)
(* (-(a*b) = (-a)*b).  Vectors (DVec2) are pairs <<x, y>>.  Lengths are in *)
(* units of the particle radius (r = 1.0) and the material constants are   *)
(* model-scale values; the literals of the force and integration formulas  *)
(* (1.4, 0.07, 0.1, 3, 6, 0.5, 9.8, PI) are the program's.                 *)
(***************************************************************************)
EXTENDS Integers, Sequences, FiniteSets, TLC

\* ------------------------------------------------------------------------
\* Fixed-point arithmetic standing for f64
\* ------------------------------------------------------------------------

\* Resolution of the fixed-point numbers: 1.0 is SCALE.
SCALE == 1000

Abs(a) == IF a < 0 THEN -a ELSE a

\* a / b rounded toward zero.
Div(a, b) ==
    IF (a >= 0) = (b > 0) THEN Abs(a) \div Abs(b) ELSE -(Abs(a) \div Abs(b))

\* f64 product and quotient of two fixed-point numbers.
Mul(a, b) == Div(a * b, SCALE)
Quo(a, b) == Div(a * SCALE, b)

RECURSIVE Isqrt(_)
\* Largest integer whose square is at most n.
Isqrt(n) ==
    IF n < 2 THEN n
    ELSE LET small == 2 * Isqrt(n \div 4)
             large == small + 1
         IN  IF large * large > n THEN small ELSE large

\* f64::sqrt of a fixed-point number.
Sqrt(a) == Isqrt(a * SCALE)

\* std::f64::consts::PI
PI == 3142

\* PI / 2, the angle atan2 gives for (0, 1).
HalfPI == Div(PI, 2)

\* atan of a ratio z in [0, 1] (z <= SCALE), in radians.
AtanUnit(z) == Div(z * (785 + Div(273 * (SCALE - z), SCALE)), SCALE)

\* f64::atan2(y, x): the angle of the vector (x, y), in (-PI, PI].
Atan2(y, x) ==
    LET ax == Abs(x)
        ay == Abs(y)
        base == IF ax = 0 /\ ay = 0 THEN 0
                ELSE IF ax >= ay THEN AtanUnit(Div(ay * SCALE, ax))
                ELSE HalfPI - AtanUnit(Div(ax * SCALE, ay))
    IN  IF x >= 0
        THEN (IF y >= 0 THEN base ELSE -base)
        ELSE (IF y >= 0 THEN PI - base ELSE base - PI)

\* ---- DVec2 ----
ZERO == <<0, 0>>
VAdd(u, v) == <<u[1] + v[1], u[2] + v[2]>>
VSub(u, v) == <<u[1] - v[1], u[2] - v[2]>>
\* DVec2 * f64
VScale(u, k) == <<Mul(u[1], k), Mul(u[2], k)>>
\* DVec2 / f64
VQuo(u, k) == <<Quo(u[1], k), Quo(u[2], k)>>
\* DVec2::dot
Dot(u, v) == Mul(u[1], v[1]) + Mul(u[2], v[2])
\* DVec2::length
Length(u) == Isqrt(u[1] * u[1] + u[2] * u[2])
\* DVec2::normalize
Normalize(u) == <<Div(u[1] * SCALE, Length(u)), Div(u[2] * SCALE, Length(u))>>


\* A decimal literal n/d of the source as a fixed-point number.
Lit(n, d) == Div(n * SCALE, d)

\* ------------------------------------------------------------------------
\* Constants of main()
\* ------------------------------------------------------------------------

\* let r: f64 = 0.02, taken as the unit of length: r = 1.0.
r == 1000
r2 == Mul(r, r)

\* Young's modulus kn of the force model, in model units (10.0).
kn == 10000

\* The sub-step dt of the integrator, in model units (0.1): the program's
\* dt = 1/fps/s is below the resolution of the fixed-point numbers.
dt == 100

\* particle_invmass and particle_invmoment in model units: the program's
\* ratio particle_invmoment / particle_invmass is 2 / r^2.
particle_invmass == 1000
particle_invmoment == Quo(Mul(Lit(2, 1), particle_invmass), r2)

\* The gravity the velocity update adds to a movable particle: (0, -9.8).
Gravity == <<0, -Lit(98, 10)>>

\* inverse_mass <= 1e-6 marks an immovable particle; 1e-6 is below the
\* resolution, so the test is inverse_mass <= 0.
MassEps == 0

\* An overlap below 1e-12 is no contact; 1e-12 is below the resolution, so
\* the smallest overlap that counts is the smallest positive number.
OverlapEps == 1

\* for _ in 0..1000: the sub-steps run between two renders.
Batch == 1000

\* ---- the step scheduler's constants, in SI units as the program has them
fps == 60
\* kn = 1e7
KnSI == 10000000
\* r = 0.02, in hundredths
RCenti == 2
\* 7.5e3
StabC == 7500
\* ... as u32 * 10
SubK == 10

\* The sub-step count without the factor 10.
SubStepsNoFactor ==
    KnSI \div (fps * ((StabC * RCenti * RCenti) \div 10000))

\* let s = (1.0 / fps / (7.5e3 * r2 / kn)) as u32 * 10.
\* 7.5e3 * r2 = 7500 * 4 / 10000 = 3 exactly, so 1/fps/(3/kn) = kn/(fps*3).
SubSteps ==
    (KnSI \div (fps * ((StabC * RCenti * RCenti) \div 10000))) * SubK

\* ------------------------------------------------------------------------
\* Data model
\* ------------------------------------------------------------------------

\* Bond::new
Bond(j, l, d, tn, tt) ==
    [broken |-> FALSE, endpoint |-> j, length |-> l, direction |-> d,
     max_normal_force |-> tn, max_tangent_force |-> tt]

\* Particle::new (the color is not modelled)
Particle(im, ii, rad, x) ==
    [bonds |-> <<>>, inverse_mass |-> im, inverse_moment |-> ii,
     radius |-> rad, angle |-> 0, angvel |-> 0, angvel_mid |-> 0,
     torque |-> 0, position |-> x, velocity |-> ZERO,
     velocity_mid |-> ZERO, force |-> ZERO]

\* clamp_angle with the remainder of %, which has the sign of the dividend,
\* in place of rem_euclid.
clamp_angle_rem(a) ==
    LET turn == Mul(Lit(2, 1), PI)
    IN  ((a + PI) - turn * Div(a + PI, turn)) - PI

\* fn clamp_angle(a) = (a + PI).rem_euclid(2.0 * PI) - PI
clamp_angle(a) == ((a + PI) % Mul(Lit(2, 1), PI)) - PI

\* The test of line 166 and of line 211.
Movable(p) == p.inverse_mass > MassEps

\* ------------------------------------------------------------------------
\* State
\* ------------------------------------------------------------------------
VARIABLES
    pts,         \* the particle array (1-based; a bond's endpoint is an index)
    pc,          \* where main() is: "push1", "push2", "drift", "contact", "bond"
                 \* ("clamp", "clamped" when clamp_angle is run on its own)
    i,           \* the particle index of the force loop (line 165)
    iter,        \* the bond index of the bond loop (line 183)
    step,        \* the counter of for _ in 0..1000 (line 157)
    frame,       \* renders done so far
    s,           \* let s (line 153); 0 before it is computed
    gravity,     \* the gravity vector of the velocity update (line 212)
    bonded_len,  \* pts.len() when the bond formation loop ran (line 117)
    mid0,        \* history: velocity_mid and angvel_mid at the sub-step's start
    contact,     \* history: contact[p][q] is the contact force added to
                 \* force_p on account of q in the current sub-step
    theta,       \* the argument last given to clamp_angle on its own
    wrapped      \* what clamp_angle returned for it

vars == <<pts, pc, i, iter, step, frame, s, gravity, bonded_len, mid0,
          contact, theta, wrapped>>

N == Len(pts)

\* ------------------------------------------------------------------------
\* Scene construction (lines 94-151)
\* ------------------------------------------------------------------------

\* let overlap = pts[i].radius + pts[j].radius - l.length(), l = pos_j - pos_i
InitialOverlap(P, a, b) ==
    P[a].radius + P[b].radius - Length(VSub(P[b].position, P[a].position))

\* The proximity rule with > in place of >=.
BondsToStrict(P, a, b) == InitialOverlap(P, a, b) > -Mul(Lit(1, 10), r)

\* if overlap >= -0.1 * r
BondsTo(P, a, b) == InitialOverlap(P, a, b) >= -Mul(Lit(1, 10), r)

RECURSIVE BondList(_, _, _)
\* The inner loop for j in 0..pts.len() of the bond formation, from b on:
\* the bonds a gets, in the order of j.
BondList(P, a, b) ==
    IF b > Len(P) THEN <<>>
    ELSE IF a # b /\ BondsTo(P, a, b)
         THEN <<Bond(b, Mul(Lit(2, 1), r),
                     Normalize(VSub(P[b].position, P[a].position)),
                     Mul(Lit(7, 100), kn), Mul(Lit(7, 100), kn))>>
              \o BondList(P, a, b + 1)
         ELSE BondList(P, a, b + 1)

\* The bond formation loop over the particles present when it runs.
FormedBonds(P) == [a \in 1..Len(P) |-> [P[a] EXCEPT !.bonds = BondList(P, a, 1)]]

\* ------------------------------------------------------------------------
\* The sub-step (lines 158-222)
\* ------------------------------------------------------------------------

\* Lines 158-164 for one particle: clear the accumulators, drift.
DriftParticle(p) ==
    [p EXCEPT !.force = ZERO,
              !.torque = 0,
              !.position = VAdd(p.position, VScale(p.velocity_mid, dt)),
              !.angle = clamp_angle(p.angle + Mul(p.angvel_mid, dt))]

\* Lines 173-180: the contact force on a from b, ZERO when they do not overlap.
ContactForce(P, a, b) ==
    LET lij == VSub(P[a].position, P[b].position)
        o == P[a].radius + P[b].radius - Length(lij)
        n == Normalize(lij)
        damp == Mul(Lit(14, 10),
                    Sqrt(Quo(kn, P[a].inverse_mass + P[b].inverse_mass)))
    IN  IF o < OverlapEps THEN ZERO
        ELSE VScale(n, Mul(kn, o)
                       + Mul(damp, Dot(VSub(P[b].velocity, P[a].velocity), n)))

RECURSIVE ContactSum(_, _, _)
\* Lines 169-182: the contact forces on a from the particles b, b+1, ...
ContactSum(P, a, b) ==
    IF b > Len(P) THEN ZERO
    ELSE IF a = b THEN ContactSum(P, a, b + 1)
    ELSE VAdd(ContactForce(P, a, b), ContactSum(P, a, b + 1))

\* The bond terms with the stretch measured against the owner's radius in
\* place of the bond's rest length.
BondTermsRadius(P, a, k) ==
    LET b == P[a].bonds[k]
        l == VSub(P[b.endpoint].position, P[a].position)
        n == Normalize(l)
        t == <<-n[2], n[1]>>
        len == Length(l)
        dl == len - P[a].radius
        qb == Atan2(b.direction[2], b.direction[1]) - Atan2(n[2], n[1])
        ti == clamp_angle(qb + P[a].angle)
        tj == clamp_angle(qb + P[b.endpoint].angle)
    IN  [dl |-> dl, ti |-> ti, tj |-> tj,
         f_n |-> VScale(VScale(n, kn), dl),
         f_t |-> VScale(VQuo(VScale(VQuo(VScale(t, -kn), Lit(3, 1)), r2), len),
                        ti + tj),
         t |-> Mul(Mul(Quo(kn, Lit(6, 1)), r2), tj - Mul(Lit(3, 1), ti))]

\* Lines 188-197: the geometry, force and torque of bond k of particle a.
BondTerms(P, a, k) ==
    LET b == P[a].bonds[k]
        l == VSub(P[b.endpoint].position, P[a].position)
        n == Normalize(l)
        t == <<-n[2], n[1]>>
        len == Length(l)
        dl == len - b.length
        qb == Atan2(b.direction[2], b.direction[1]) - Atan2(n[2], n[1])
        ti == clamp_angle(qb + P[a].angle)
        tj == clamp_angle(qb + P[b.endpoint].angle)
    IN  [dl |-> dl, ti |-> ti, tj |-> tj,
         f_n |-> VScale(VScale(n, kn), dl),
         f_t |-> VScale(VQuo(VScale(VQuo(VScale(t, -kn), Lit(3, 1)), r2), len),
                        ti + tj),
         t |-> Mul(Mul(Quo(kn, Lit(6, 1)), r2), tj - Mul(Lit(3, 1), ti))]

\* Lines 198-201: the breaking test of bond k of particle a.
Breaks(P, a, k) ==
    LET b == P[a].bonds[k]
        m == BondTerms(P, a, k)
    IN  \/ /\ m.dl > 0
           /\ Quo(Quo(Length(m.f_n), Lit(2, 1)), r)
                + Abs(Mul(Quo(kn, Lit(2, 1)), m.tj - m.ti))
              > b.max_normal_force
        \/ Quo(Quo(Length(m.f_t), Lit(2, 1)), r) > b.max_tangent_force

\* The bond iteration without the continue of line 204: the bond that breaks
\* still adds its force and torque.
BondIterationNoContinue(P, a, k) ==
    IF P[a].bonds[k].broken THEN P
    ELSE LET m == BondTerms(P, a, k)
         IN  [P EXCEPT ![a].bonds[k].broken = Breaks(P, a, k),
                       ![a].force = VAdd(@, VAdd(m.f_n, m.f_t)),
                       ![a].torque = @ + m.t]

\* The bond iteration with one shared bond per pair: the reaction is applied
\* to the endpoint and the mirrored bond breaks with this one.
BondIterationShared(P, a, k) ==
    LET e == P[a].bonds[k].endpoint
        m == BondTerms(P, a, k)
    IN  IF P[a].bonds[k].broken THEN P
        ELSE IF Breaks(P, a, k)
             THEN [P EXCEPT ![a].bonds[k].broken = TRUE,
                            ![e].bonds = [j \in 1..Len(P[e].bonds) |->
                                            IF P[e].bonds[j].endpoint = a
                                            THEN [P[e].bonds[j] EXCEPT !.broken = TRUE]
                                            ELSE P[e].bonds[j]]]
             ELSE [P EXCEPT ![a].force = VAdd(@, VAdd(m.f_n, m.f_t)),
                            ![a].torque = @ + m.t,
                            ![e].force = VSub(@, VAdd(m.f_n, m.f_t))]

\* Lines 184-207: one iteration of the bond loop of particle a, on bond k.
BondIteration(P, a, k) ==
    IF P[a].bonds[k].broken THEN P
    ELSE IF Breaks(P, a, k)
         THEN [P EXCEPT ![a].bonds[k].broken = TRUE]
         ELSE LET m == BondTerms(P, a, k)
              IN  [P EXCEPT ![a].force = VAdd(@, VAdd(m.f_n, m.f_t)),
                            ![a].torque = @ + m.t]

\* The acceleration with gravity added to every particle, movable or not.
AccGravityAlways(p, g) == VAdd(VScale(p.force, p.inverse_mass), g)

\* let acc = force * inverse_mass + (gravity if inverse_mass > 1e-6)
Acc(p, g) ==
    VAdd(VScale(p.force, p.inverse_mass), IF Movable(p) THEN g ELSE ZERO)

\* Lines 210-220 for one particle.
KickParticle(p, g) ==
    LET acc == Acc(p, g)
        aacc == Mul(p.torque, p.inverse_moment)
    IN  [p EXCEPT
           !.velocity = VAdd(p.velocity_mid, VScale(VScale(acc, Lit(5, 10)), dt)),
           !.velocity_mid = VAdd(p.velocity_mid, VScale(acc, dt)),
           !.angvel = p.angvel_mid + Mul(Mul(aacc, Lit(5, 10)), dt),
           !.angvel_mid = p.angvel_mid + Mul(aacc, dt)]

\* ------------------------------------------------------------------------
\* Bounds of the exploration
\* ------------------------------------------------------------------------

\* Most particles a scene holds.
MaxParticles == 4
\* Sub-steps followed from a scene.
MaxSteps == 10
\* Renders followed from a bonded pair.
MaxFrames == 1
\* clamp_angle is tried on every angle from -MaxTheta to MaxTheta.
MaxTheta == 13000

\* Where a scene may put a particle: a neighbour at 2r, one at exactly 2.1r
\* (overlap -0.1r), a diagonal one (out of bonding range) and one that
\* overlaps from the start.
ScenePos ==
    {<<0, 0>>, <<2000, 0>>, <<0, 2100>>, <<2000, 2000>>, <<1000, 1700>>}

\* The inverse masses a scene gives a particle: Particle::new(0.0, 0.0, ...)
\* or Particle::new(particle_invmass, particle_invmoment, ...).
Kinds == {0, particle_invmass}

\* The grids push their particles in the order of x, then y.
LexLess(u, v) == u[1] < v[1] \/ (u[1] = v[1] /\ u[2] < v[2])

\* ------------------------------------------------------------------------
\* Actions
\* ------------------------------------------------------------------------

\* What pushing one more particle does (pts.push(Particle::new(...))).
Pushed(im, x) ==
    Append(pts, Particle(im, IF im = 0 THEN 0 ELSE particle_invmoment, r, x))

\* Lines 94-116: a particle pushed before the bonds are formed.
PushEarly(im, x) ==
    /\ pc = "push1"
    /\ N < MaxParticles
    /\ \A p \in 1..N : LexLess(pts[p].position, x)
    /\ pts' = Pushed(im, x)
    /\ UNCHANGED <<pc, i, iter, step, frame, s, gravity, bonded_len, mid0,
                   contact, theta, wrapped>>

\* Lines 117-134: bonds between the particles pushed so far.
FormBonds ==
    /\ pc = "push1"
    /\ pts' = FormedBonds(pts)
    /\ bonded_len' = N
    /\ pc' = "push2"
    /\ UNCHANGED <<i, iter, step, frame, s, gravity, mid0, contact, theta,
                   wrapped>>

\* Lines 135-151: a particle pushed after the bonds were formed.
PushLate(im, x) ==
    /\ pc = "push2"
    /\ N < MaxParticles
    /\ \A p \in 1..N : pts[p].position # x
    /\ \A p \in (bonded_len + 1)..N : LexLess(pts[p].position, x)
    /\ pts' = Pushed(im, x)
    /\ UNCHANGED <<pc, i, iter, step, frame, s, gravity, bonded_len, mid0,
                   contact, theta, wrapped>>

\* Lines 153-156: the sub-step count, then into the frame loop.
StartLoop ==
    /\ pc = "push2"
    /\ N > 0
    /\ s' = SubSteps
    /\ pc' = "drift"
    /\ UNCHANGED <<pts, i, iter, step, frame, gravity, bonded_len, mid0,
                   contact, theta, wrapped>>

\* Lines 157-164: a sub-step begins; every particle is cleared and drifts.
Drift ==
    /\ pc = "drift"
    /\ step < Batch
    /\ pts' = [p \in 1..N |-> DriftParticle(pts[p])]
    /\ mid0' = [p \in 1..N |-> [velocity_mid |-> pts[p].velocity_mid,
                                angvel_mid |-> pts[p].angvel_mid]]
    /\ contact' = [p \in 1..N |-> [q \in 1..N |-> ZERO]]
    /\ i' = 1
    /\ pc' = "contact"
    /\ UNCHANGED <<iter, step, frame, s, gravity, bonded_len, theta, wrapped>>

\* Lines 165-168: an immovable particle is passed over (continue).
SkipImmovable ==
    /\ pc = "contact"
    /\ i <= N
    /\ ~Movable(pts[i])
    /\ i' = i + 1
    /\ UNCHANGED <<pts, pc, iter, step, frame, s, gravity, bonded_len, mid0,
                   contact, theta, wrapped>>

\* Lines 165-182: the contact forces on movable particle i.
Contact ==
    /\ pc = "contact"
    /\ i <= N
    /\ Movable(pts[i])
    /\ pts' = [pts EXCEPT ![i].force = VAdd(@, ContactSum(pts, i, 1))]
    /\ contact' = [contact EXCEPT ![i] =
                     [q \in 1..N |-> IF q = i THEN ZERO
                                     ELSE ContactForce(pts, i, q)]]
    /\ iter' = 1
    /\ pc' = "bond"
    /\ UNCHANGED <<i, step, frame, s, gravity, bonded_len, mid0, theta,
                   wrapped>>

\* Lines 183-208: one bond of particle i is evaluated.
BondEval ==
    /\ pc = "bond"
    /\ iter <= Len(pts[i].bonds)
    /\ pts' = BondIteration(pts, i, iter)
    /\ iter' = iter + 1
    /\ UNCHANGED <<pc, i, step, frame, s, gravity, bonded_len, mid0, contact,
                   theta, wrapped>>

\* Lines 209-221: the velocity update of every particle, run at the end of
\* the iteration of the force loop for particle i.
Kick ==
    /\ pc = "bond"
    /\ iter > Len(pts[i].bonds)
    /\ pts' = [p \in 1..N |-> KickParticle(pts[p], gravity)]
    /\ i' = i + 1
    /\ pc' = "contact"
    /\ UNCHANGED <<iter, step, frame, s, gravity, bonded_len, mid0, contact,
                   theta, wrapped>>

\* Line 222-223: the force loop is over, and with it the sub-step.
EndSubStep ==
    /\ pc = "contact"
    /\ i > N
    /\ step' = step + 1
    /\ pc' = "drift"
    /\ UNCHANGED <<pts, i, iter, frame, s, gravity, bonded_len, mid0, contact,
                   theta, wrapped>>

\* Lines 225-256: the batch is over; the particles are drawn (read only) and
\* the next batch begins.
Render ==
    /\ pc = "drift"
    /\ step = Batch
    /\ step' = 0
    /\ frame' = frame + 1
    /\ UNCHANGED <<pts, pc, i, iter, s, gravity, bonded_len, mid0, contact,
                   theta, wrapped>>

\* clamp_angle applied to the angle theta.
WrapApply ==
    /\ pc = "clamp"
    /\ wrapped' = clamp_angle(theta)
    /\ pc' = "clamped"
    /\ UNCHANGED <<pts, i, iter, step, frame, s, gravity, bonded_len, mid0,
                   contact, theta>>

\* ------------------------------------------------------------------------
\* Specifications
\* ------------------------------------------------------------------------

InitCounters ==
    /\ i = 1 /\ iter = 1 /\ step = 0 /\ frame = 0
    /\ mid0 = <<>> /\ contact = <<>>
    /\ theta = 0 /\ wrapped = 0

\* main() from its first line, on the scenes ScenePos and Kinds allow.
Init ==
    /\ pts = <<>>
    /\ pc = "push1"
    /\ s = 0
    /\ gravity = Gravity
    /\ bonded_len = 0
    /\ InitCounters

Next ==
    \/ \E im \in Kinds, x \in ScenePos : PushEarly(im, x)
    \/ FormBonds
    \/ \E im \in Kinds, x \in ScenePos : PushLate(im, x)
    \/ StartLoop
    \/ (step < MaxSteps /\ Drift)
    \/ SkipImmovable
    \/ Contact
    \/ BondEval
    \/ Kick
    \/ EndSubStep

Spec == Init /\ [][Next]_vars

\* Where the second particle of a bonded pair is put: rest_length from the
\* first, along an axis.
PairPos == {<<2000, 0>>, <<-2000, 0>>, <<0, 2000>>, <<0, -2000>>}

\* Two movable particles that own mirrored bonds to each other, as the bond
\* formation makes them, with no particle pushed after it.
InitPair(g) ==
    /\ \E x \in PairPos :
         pts = FormedBonds(<<Particle(particle_invmass, particle_invmoment, r, ZERO),
                             Particle(particle_invmass, particle_invmoment, r, x)>>)
    /\ pc = "push2"
    /\ s = 0
    /\ gravity = g
    /\ bonded_len = 2
    /\ InitCounters

NextPair ==
    \/ StartLoop
    \/ (frame < MaxFrames /\ Drift)
    \/ Contact
    \/ BondEval
    \/ Kick
    \/ EndSubStep
    \/ Render

\* The frame loop on a bonded pair under the program's gravity.
SpecFrame == InitPair(Gravity) /\ [][NextPair]_vars

\* The frame loop on a bonded pair with gravity switched off.
SpecRest == InitPair(ZERO) /\ [][NextPair]_vars

\* clamp_angle on its own is about to be given an angle of the bounded range.
InitWrap ==
    /\ pts = <<>>
    /\ pc = "clamp"
    /\ i = 1 /\ iter = 1 /\ step = 0 /\ frame = 0 /\ s = 0
    /\ gravity = Gravity
    /\ bonded_len = 0
    /\ mid0 = <<>> /\ contact = <<>>
    /\ theta \in (-MaxTheta)..MaxTheta
    /\ wrapped = 0

NextWrap == WrapApply

\* clamp_angle on its own, on every angle of the bounded range.
SpecWrap == InitWrap /\ [][NextWrap]_vars

\* ------------------------------------------------------------------------
\* Properties
\* ------------------------------------------------------------------------

\* The velocity update loop of line 209 is about to run.
AtKick == pc = "bond" /\ iter > Len(pts[i].bonds)

\* The bond loop is about to evaluate bond iter of particle i.
AtBond == pc = "bond" /\ iter <= Len(pts[i].bonds)

\* The force loop of the current sub-step has ended.
SubStepDone == pc = "contact" /\ i > N

\* The batch has ended and the render is about to run.
AtRender == pc = "drift" /\ step = Batch

\* The overlap of two particles where they are now.
Overlap(a, b) ==
    pts[a].radius + pts[b].radius
      - Length(VSub(pts[a].position, pts[b].position))

\* C1. Immovable invariance: no step of the program changes the position,
\* velocity, angle or angvel of a particle whose inverse_mass is 0, so they
\* stay what Particle::new made them, whatever overlaps it or is bonded to it.
C1_ImmovableInvariance ==
    [][\A p \in 1..N :
         pts[p].inverse_mass = 0 =>
           /\ pts'[p].position = pts[p].position
           /\ pts'[p].velocity = pts[p].velocity
           /\ pts'[p].angle = pts[p].angle
           /\ pts'[p].angvel = pts[p].angvel]_vars

\* An immovable particle, still as created after a sub-step, that a movable
\* particle pushes against and that a movable particle is bonded to.
C1_Witness ==
    /\ SubStepDone
    /\ step >= 1
    /\ \E p \in 1..N :
         /\ pts[p].inverse_mass = 0
         /\ pts[p].position \in ScenePos
         /\ pts[p].velocity = ZERO /\ pts[p].angle = 0 /\ pts[p].angvel = 0
         /\ \E q \in 1..N : Movable(pts[q]) /\ contact[q][p] # ZERO
         /\ \E q \in 1..N : \E k \in 1..Len(pts[q].bonds) :
              /\ Movable(pts[q])
              /\ pts[q].bonds[k].endpoint = p
              /\ ~pts[q].bonds[k].broken
              /\ pts[q].torque # 0

\* C2. Bond monotonicity: a broken bond is broken in the next state, whatever
\* the step; and a bond evaluation that leaves its bond broken (it broke now,
\* or was broken before) adds nothing to the owner's force and torque.
C2_BondMonotonic ==
    [][/\ \A p \in 1..N : \A k \in 1..Len(pts[p].bonds) :
            pts[p].bonds[k].broken => pts'[p].bonds[k].broken
       /\ (AtBond /\ pts'[i].bonds[iter].broken) =>
            /\ pts'[i].force = pts[i].force
            /\ pts'[i].torque = pts[i].torque]_vars

\* The bond loop has just passed over a bond that broke in an earlier
\* sub-step: it is broken although it would not break in this one.
C2_Witness ==
    /\ pc = "bond"
    /\ iter > 1
    /\ step >= 1
    /\ pts[i].bonds[iter - 1].broken
    /\ ~Breaks(pts, i, iter - 1)

\* C3. Force-before-kick barrier: whenever the velocity update is about to
\* run, no movable particle's force of this sub-step is still to be computed.
C3_ForceBeforeKick ==
    AtKick => \A p \in (i + 1)..N : ~Movable(pts[p])

\* C4. One kick per sub-step: when a sub-step's force loop has ended, every
\* particle's velocity_mid is its value at the sub-step's start plus acc*dt,
\* and its angvel_mid the start value plus torque*inverse_moment*dt, acc and
\* torque being those of the forces accumulated in the sub-step.
C4_OneKickPerSubStep ==
    SubStepDone =>
      \A p \in 1..N :
        /\ pts[p].velocity_mid
             = VAdd(mid0[p].velocity_mid, VScale(Acc(pts[p], gravity), dt))
        /\ pts[p].angvel_mid
             = mid0[p].angvel_mid
               + Mul(Mul(pts[p].torque, pts[p].inverse_moment), dt)

\* C6. Contact reciprocity in a sub-step: when a sub-step's force loop has
\* ended, the contact forces two movable particles got on account of each
\* other sum to zero.
C6_ContactReciprocity ==
    SubStepDone =>
      \A p \in 1..N : \A q \in 1..N :
        (p # q /\ Movable(pts[p]) /\ Movable(pts[q])) =>
          VAdd(contact[p][q], contact[q][p]) = ZERO

\* C5 as claimed. Angle range: what clamp_angle returns lies in (-PI, PI],
\* PI included and -PI excluded.
C5_RangeOpenBelow == pc = "clamped" => (-PI < wrapped /\ wrapped <= PI)

\* C5 as amended. Angle range: what clamp_angle returns lies in [-PI, PI),
\* -PI included and PI excluded, and differs from the argument by a whole
\* number of turns.
C5_ClampRange ==
    pc = "clamped" =>
      /\ -PI <= wrapped
      /\ wrapped < PI
      /\ (wrapped - theta) % Mul(Lit(2, 1), PI) = 0

\* C5, on the particles: every particle's angle lies in [-PI, PI), and so do
\* the corotational angles ti, tj of the bond about to be evaluated.
AngleRange ==
    /\ \A p \in 1..N : -PI <= pts[p].angle /\ pts[p].angle < PI
    /\ AtBond =>
         LET m == BondTerms(pts, i, iter)
         IN  /\ -PI <= m.ti /\ m.ti < PI
             /\ -PI <= m.tj /\ m.tj < PI

\* clamp_angle was given PI and returned -PI.
C5_Witness == pc = "clamped" /\ theta = PI /\ wrapped = -PI

\* C7 as claimed. Frame coverage: when a batch has ended, the sub-steps it
\* ran are at least s, that is batch * dt >= 1/fps with dt = 1/fps/s.
C7_BatchCoversFrame == AtRender => step >= s

\* C7 as amended. When a batch has ended it ran Batch = 1000 sub-steps, and s
\* is 555550: the batch is shorter than s, that is batch * dt < 1/fps.
C7_BatchShorterThanFrame ==
    /\ pc # "push2" => s = 555550
    /\ AtRender => (step = 1000 /\ step < s)

\* A batch has ended and the render is about to run.
C7_Witness == AtRender /\ frame = 0 /\ s > 0

\* The proximity rule of the bond formation on the squares of the lengths:
\* radius_a + radius_b - |pos_a - pos_b| >= -0.1 r.
Near(a, b) ==
    LET l == VSub(pts[b].position, pts[a].position)
        reach == pts[a].radius + pts[b].radius + Mul(Lit(1, 10), r)
    IN  l[1] * l[1] + l[2] * l[2] <= reach * reach

\* The bonds of particle a whose endpoint is b.
BondsOf(a, b) ==
    {k \in 1..Len(pts[a].bonds) : pts[a].bonds[k].endpoint = b}

\* Particle a owns exactly one bond with endpoint b, unbroken, of rest length
\* 2r and with both thresholds 0.07 kn.
OwnsFreshBond(a, b) ==
    /\ Cardinality(BondsOf(a, b)) = 1
    /\ \A k \in BondsOf(a, b) :
         /\ ~pts[a].bonds[k].broken
         /\ pts[a].bonds[k].length = Mul(Lit(2, 1), r)
         /\ pts[a].bonds[k].max_normal_force = Mul(Lit(7, 100), kn)
         /\ pts[a].bonds[k].max_tangent_force = Mul(Lit(7, 100), kn)

\* The state handed to the first sub-step.
FirstSubStep == pc = "drift" /\ step = 0 /\ frame = 0

\* C8 as claimed. Complete proximity bond graph: in the state handed to the
\* first sub-step every ordered pair of distinct particles of the array
\* within the proximity rule has its bond, and no other pair has one.
C8_CompleteBondGraph ==
    FirstSubStep =>
      \A a \in 1..N : \A b \in 1..N :
        a # b => IF Near(a, b) THEN OwnsFreshBond(a, b)
                 ELSE BondsOf(a, b) = {}

\* C8 as amended. In the state handed to the first sub-step the proximity
\* bond graph is complete among the particles that were in the array when
\* the bond formation loop ran; a particle pushed after it owns no bond and
\* is no bond's endpoint.
C8_BondGraphOfEarlyParticles ==
    FirstSubStep =>
      \A a \in 1..N : \A b \in 1..N :
        a # b => IF a <= bonded_len /\ b <= bonded_len /\ Near(a, b)
                 THEN OwnsFreshBond(a, b)
                 ELSE BondsOf(a, b) = {}

\* A scene at its first sub-step with two early particles bonded at exactly
\* overlap -0.1 r and a late particle within the rule of an early one.
C8_Witness ==
    /\ FirstSubStep
    /\ \E a \in 1..bonded_len : \E b \in 1..bonded_len :
         /\ a # b
         /\ Overlap(a, b) = -Mul(Lit(1, 10), r)
         /\ OwnsFreshBond(a, b)
    /\ \E a \in 1..bonded_len : \E b \in (bonded_len + 1)..N :
         Near(a, b) /\ BondsOf(a, b) = {} /\ BondsOf(b, a) = {}

C10_BondEvalFrame ==
    [][AtBond =>
         \A p \in 1..N :
           IF p # i THEN pts'[p] = pts[p]
           ELSE pts'[p] = [pts[p] EXCEPT
                             !.force = pts'[p].force,
                             !.torque = pts'[p].torque,
                             !.bonds[iter].broken = pts'[p].bonds[iter].broken]]_vars

\* The bond of movable particle i toward a movable particle has just broken
\* while the mirrored bond, owned by that particle, is unbroken.
C10_Witness ==
    /\ pc = "bond"
    /\ iter > 1
    /\ pts[i].bonds[iter - 1].broken
    /\ LET e == pts[i].bonds[iter - 1].endpoint
       IN  /\ Movable(pts[e])
           /\ \E k \in 1..Len(pts[e].bonds) :
                pts[e].bonds[k].endpoint = i /\ ~pts[e].bonds[k].broken

=============================================================================
